---- MODULE Spec2Model ----
(***************************************************************************)
(* A model of secret_santa.py: the pairing of participants, the building   *)
(* of one notification per pair (wishlist classification, scraping with an *)
(* on-disk cache, price cleaning and the product summary) and the sending. *)
(*                                                                         *)
(* Python strings are modelled as sequences of one-character strings, so   *)
(* that regular-expression matching, partitioning, stripping and number    *)
(* formatting are computed character by character.                         *)
(***************************************************************************)
EXTENDS Integers, Sequences, FiniteSets, TLC

VARIABLES
    \* ---- a run of main() ----
    pc,         \* position of main(): "start", "pairs", "check", "build",
                \* "agent", "send", "done", "aborted"
    args,       \* parsed command line: [preview, test, no_scrape]
    people,     \* list(input.participants)
    scrapers,   \* list(input.scrapers), as the sequence of their sources
    pairs,      \* list(get_pairs(people))
    emails,     \* the list comprehension of make_email, as far as built
    items,      \* rendered wishlist items of the email being built
    sent,       \* the emails handed to server.sendmail, in order
    cache,      \* .scraper_cache: cache file name -> stored record or None
    fetches,    \* cache file name -> number of requests.get calls made
    last,       \* what the last step of main() did
    error,      \* the exception that ended the run, "" while none
    \* ---- parse_wishlist_item on one raw string ----
    raw,        \* the raw wishlist string
    item,       \* the WishlistItem returned, NoResult before the call
    \* ---- ScraperDetails on one scraped record ----
    title,      \* scraped title
    sale_price, \* scraped sale price: None, a float or a string
    list_price, \* scraped list price
    details     \* the constructed ScraperDetails with its repr

mainVars == <<pc, args, people, scrapers, pairs, emails, items, sent,
              cache, fetches, last, error>>
itemVars == <<raw, item>>
detailVars == <<title, sale_price, list_price, details>>
vars == <<mainVars, itemVars, detailVars>>

----------------------------------------------------------------------------
(* Bounds of the model *)

MaxPeople == 3      \* longest participant list
MaxPad == 1         \* longest padding after a wishlist code
MaxLen == 4         \* longest scraped price text
MaxWords == 9       \* longest title, in words

(* Constants of the program *)

CODE_LEN == 10      \* SCRAPER_REGEX: [A-Z0-9]{10}
MAX_LEN == 8        \* title_abbr: MAX_LEN

None == [t |-> "none"]
NoResult == [t |-> "no result"]

----------------------------------------------------------------------------
(* Strings *)

Concat(ss) == ss[1] \o ss[2] \o ss[3] \o ss[4] \o ss[5]

RECURSIVE SeqsUpTo(_, _)
SeqsUpTo(S, n) ==
    IF n = 0 THEN {<< >>}
    ELSE LET shorter == SeqsUpTo(S, n - 1)
         IN  shorter \cup {Append(s, c) : s \in {x \in shorter : Len(x) = n - 1}, c \in S}

StartsWith(s, p) == Len(s) >= Len(p) /\ SubSeq(s, 1, Len(p)) = p

Contains(s, p) == \E i \in 1..(Len(s) + 1) : StartsWith(SubSeq(s, i, Len(s)), p)

\* str.count(c) for a one-character c
Count(s, c) == Cardinality({i \in 1..Len(s) : s[i] = c})

\* str.replace(c, "") for a one-character c
RECURSIVE Remove(_, _)
Remove(s, c) ==
    IF s = << >> THEN << >>
    ELSE IF s[1] = c THEN Remove(Tail(s), c)
    ELSE <<s[1]>> \o Remove(Tail(s), c)

\* str.strip(): whitespace removed at both ends
RECURSIVE LStrip(_)
LStrip(s) == IF s # << >> /\ s[1] = " " THEN LStrip(Tail(s)) ELSE s

RECURSIVE RStrip(_)
RStrip(s) ==
    IF s # << >> /\ s[Len(s)] = " " THEN RStrip(SubSeq(s, 1, Len(s) - 1)) ELSE s

Strip(s) == RStrip(LStrip(s))

\* str.rpartition(c)[0]: the text before the last c (c occurs in s)
RPartitionHead(s, c) ==
    LET k == CHOOSE i \in 1..Len(s) :
                 s[i] = c /\ \A j \in (i + 1)..Len(s) : s[j] # c
    IN  SubSeq(s, 1, k - 1)

\* str.rpartition(c)[2]: the text after the last c (c occurs in s)
RPartitionTail(s, c) ==
    LET k == CHOOSE i \in 1..Len(s) :
                 s[i] = c /\ \A j \in (i + 1)..Len(s) : s[j] # c
    IN  SubSeq(s, k + 1, Len(s))

DIGITS == <<"0", "1", "2", "3", "4", "5", "6", "7", "8", "9">>
Digit == {DIGITS[i] : i \in 1..10}
DigitVal(c) == (CHOOSE i \in 1..10 : DIGITS[i] = c) - 1

UPPER == {"A", "B", "C", "D", "E", "F", "G", "H", "I", "J", "K", "L", "M",
          "N", "O", "P", "Q", "R", "S", "T", "U", "V", "W", "X", "Y", "Z"}
LOWER == {"a", "b", "c", "d", "e", "f", "g", "h", "i", "j", "k", "l", "m",
          "n", "o", "p", "q", "r", "s", "t", "u", "v", "w", "x", "y", "z"}

----------------------------------------------------------------------------
(* parse_wishlist_item *)

AMAZON == <<"a", "m", "a", "z", "o", "n">>
HTTP == <<"h", "t", "t", "p", ":", "/", "/">>
HTTPS == <<"h", "t", "t", "p", "s", ":", "/", "/">>

\* SCRAPER_REGEX matched at position i: (?P<name>amazon)/(?P<code>[A-Z0-9]{10})
ScraperMatchAt(s, i) ==
    /\ i + Len(AMAZON) + CODE_LEN <= Len(s)
    /\ SubSeq(s, i, i + Len(AMAZON) - 1) = AMAZON
    /\ s[i + Len(AMAZON)] = "/"
    /\ \A k \in 1..CODE_LEN : s[i + Len(AMAZON) + k] \in UPPER \cup Digit

\* SCRAPER_REGEX.search(s): the leftmost match anywhere in s, or None
SCRAPER_REGEX(s) ==
    IF \E i \in 1..Len(s) : ScraperMatchAt(s, i)
    THEN LET i == CHOOSE k \in 1..Len(s) :
                      ScraperMatchAt(s, k) /\ \A j \in 1..(k - 1) : ~ScraperMatchAt(s, j)
         IN  [t |-> "match",
              name |-> SubSeq(s, i, i + Len(AMAZON) - 1),
              code |-> SubSeq(s, i + Len(AMAZON) + 1, i + Len(AMAZON) + CODE_LEN)]
    ELSE None

\* URL_REGEX.match(s): https?://.* anchored at the start of s
URL_REGEX(s) == StartsWith(s, HTTP) \/ StartsWith(s, HTTPS)

ScrapedItem(source, code) == [t |-> "ScrapedItem", source |-> source, code |-> code]
LinkedItem(url) == [t |-> "LinkedItem", url |-> url]
PlainTextItem(text) == [t |-> "PlainTextItem", text |-> text]

\* the URL pattern tried before the scraper pattern
parse_wishlist_item_url_first(s) ==
    IF URL_REGEX(s) THEN LinkedItem(s)
    ELSE LET m == SCRAPER_REGEX(s)
         IN  IF m.t = "match" THEN ScrapedItem(m.name, m.code) ELSE PlainTextItem(s)

parse_wishlist_item(s) ==
    LET m == SCRAPER_REGEX(s)
    IN  IF m.t = "match" THEN ScrapedItem(m.name, m.code)
        ELSE IF URL_REGEX(s) THEN LinkedItem(s)
        ELSE PlainTextItem(s)

----------------------------------------------------------------------------
(* ScraperDetails: price cleaning, title abbreviation and the summary *)

\* A float is kept as the decimal n / 10^e, without trailing zeros.
RECURSIVE Pow10(_)
Pow10(k) == IF k = 0 THEN 1 ELSE 10 * Pow10(k - 1)

RECURSIVE Float(_, _)
Float(n, e) ==
    IF e > 0 /\ n % 10 = 0 THEN Float(n \div 10, e - 1)
    ELSE [t |-> "float", n |-> n, e |-> e]

Str(s) == [t |-> "str", s |-> s]

\* a < b, comparing the whole parts and then the fractions
FloatLess(a, b) ==
    LET wa == a.n \div Pow10(a.e)
        wb == b.n \div Pow10(b.e)
    IN  \/ wa < wb
        \/ wa = wb /\ (a.n % Pow10(a.e)) * Pow10(b.e) < (b.n % Pow10(b.e)) * Pow10(a.e)

RECURSIVE DigitsVal(_)
DigitsVal(s) ==
    IF s = << >> THEN 0
    ELSE 10 * DigitsVal(SubSeq(s, 1, Len(s) - 1)) + DigitVal(s[Len(s)])

\* float(s) on text made of digits, ".", "$", letters and blanks: blanks
\* around the number are ignored, the number is digits with at most one
\* point and at least one digit.  Anything else raises ValueError.
float(s) ==
    LET u == Strip(s)
        ok == /\ \A i \in 1..Len(u) : u[i] \in Digit \cup {"."}
              /\ Count(u, ".") <= 1
              /\ \E i \in 1..Len(u) : u[i] \in Digit
    IN  IF ~ok THEN [raised |-> TRUE, v |-> None]
        ELSE [raised |-> FALSE,
              v |-> Float(DigitsVal(Remove(u, ".")),
                          IF Count(u, ".") = 1 THEN Len(RPartitionTail(u, ".")) ELSE 0)]

_clean_price(price_str) ==
    IF price_str.t = "none" THEN [raised |-> FALSE, v |-> None]
    ELSE IF price_str.t = "float" THEN [raised |-> FALSE, v |-> price_str]
    ELSE LET s == IF Count(price_str.s, "$") > 1
                  THEN RPartitionHead(price_str.s, "$")
                  ELSE price_str.s
         IN  IF Len(s) = 0 THEN [raised |-> FALSE, v |-> None]
             ELSE float(Remove(Strip(s), "$"))

\* " ".join(title.split(" ")[:k]): the title up to its k-th blank
RECURSIVE FirstPieces(_, _)
FirstPieces(s, k) ==
    IF s = << >> THEN << >>
    ELSE IF s[1] = " "
         THEN IF k = 1 THEN << >> ELSE <<" ">> \o FirstPieces(Tail(s), k - 1)
         ELSE <<s[1]>> \o FirstPieces(Tail(s), k)

title_abbr(t) ==
    IF Count(t, " ") + 1 <= MAX_LEN THEN t
    ELSE FirstPieces(t, MAX_LEN) \o <<".", ".", ".">>

RECURSIVE IntDigits(_)
IntDigits(n) ==
    IF n < 10 THEN <<DIGITS[n + 1]>>
    ELSE IntDigits(n \div 10) \o <<DIGITS[(n % 10) + 1]>>

\* the integer part with "," between groups of three digits
RECURSIVE Grouped(_)
Grouped(n) ==
    IF n < 1000 THEN IntDigits(n)
    ELSE Grouped(n \div 1000) \o <<",">>
         \o <<DIGITS[((n \div 100) % 10) + 1], DIGITS[((n \div 10) % 10) + 1],
              DIGITS[(n % 10) + 1]>>

\* the value in hundredths, rounded half to even as format(".2f") rounds
Cents(d) ==
    IF d.e <= 2 THEN d.n * Pow10(2 - d.e)
    ELSE LET q == d.n \div Pow10(d.e - 2)
             r == d.n % Pow10(d.e - 2)
             half == 5 * Pow10(d.e - 3)
         IN  IF r > half \/ (r = half /\ q % 2 = 1) THEN q + 1 ELSE q

UNKNOWN == <<"?", "?", "?">>

dolla(dollars) ==
    IF dollars.t = "none" THEN UNKNOWN
    ELSE LET c == Cents(dollars)
         IN  <<"$">> \o Grouped(c \div 100) \o <<".">>
             \o <<DIGITS[((c \div 10) % 10) + 1], DIGITS[(c % 10) + 1]>>

ON_SALE_FOR == <<"O", "n", " ", "s", "a", "l", "e", " ", "f", "o", "r", " ">>
USUALLY == <<",", " ", "u", "s", "u", "a", "l", "l", "y", " ">>
BE_AWARE == <<"B", "e", " ", "a", "w", "a", "r", "e", ",", " ",
              "s", "e", "l", "l", "i", "n", "g", " ", "f", "o", "r", " ">>

\* the lone price is always taken from the sale price
repr_sale_only(d) ==
    IF d.list_price.t = "none" /\ d.sale_price.t = "none" THEN title_abbr(d.title)
    ELSE title_abbr(d.title) \o <<" ", "(">> \o dolla(d.sale_price) \o <<")">>

\* ScraperDetails.__repr__
repr(d) ==
    LET dolla_sale == dolla(d.sale_price)
        dolla_list == dolla(d.list_price)
        price_str ==
            IF d.sale_price.t # "none" /\ d.list_price.t # "none"
            THEN IF FloatLess(d.sale_price, d.list_price)
                 THEN ON_SALE_FOR \o dolla_sale \o USUALLY \o dolla_list \o <<"!">>
                 ELSE IF FloatLess(d.list_price, d.sale_price)
                 THEN BE_AWARE \o dolla_sale \o USUALLY \o dolla_list \o <<".">>
                 ELSE dolla_sale
            ELSE IF d.sale_price.t # "none" THEN dolla_sale ELSE dolla_list
    IN  IF d.list_price.t = "none" /\ d.sale_price.t = "none" THEN title_abbr(d.title)
        ELSE title_abbr(d.title) \o <<" ", "(">> \o price_str \o <<")">>

\* ScraperDetails(title, sale_price, list_price): the constructed object, or
\* the ValueError raised by the title check or by float()
ScraperDetails(t, sale, list) ==
    LET s == _clean_price(sale)
        l == _clean_price(list)
    IN  IF t.t = "none"
        THEN [raised |-> "Title is None", title |-> << >>, sale_price |-> None, list_price |-> None]
        ELSE IF s.raised \/ l.raised
        THEN [raised |-> "could not convert string to float", title |-> << >>,
              sale_price |-> None, list_price |-> None]
        ELSE [raised |-> "", title |-> Strip(t.s), sale_price |-> s.v, list_price |-> l.v]

\* ScraperDetails.as_dict
as_dict(d) == [title |-> Str(d.title), sale_price |-> d.sale_price, list_price |-> d.list_price]

----------------------------------------------------------------------------
(* A run of main() *)

\* Participant.__eq__ and __hash__: name and email, not the wishlist
Identity(p) == <<p.name, p.email>>

Wishlist(w) == [t |-> "list", v |-> w]

\* Participant.get_wishlist
get_wishlist(p) == IF p.wishlist.t = "none" THEN << >> ELSE p.wishlist.v

Pair(giver, receiver) == [giver |-> giver, receiver |-> receiver]

\* every list equal to its own set: the duplicate check is skipped
HasDuplicates_never(ps) == FALSE

\* len(people) != len(set(people))
HasDuplicates(ps) == Len(ps) # Cardinality({Identity(ps[i]) : i \in 1..Len(ps)})

\* the orders random.shuffle can leave the list in
Shuffles(ps) ==
    {[i \in 1..Len(ps) |-> ps[f[i]]] :
        f \in {g \in [1..Len(ps) -> 1..Len(ps)] :
                  \A i, j \in 1..Len(ps) : g[i] = g[j] => i = j}}

\* the receiver is taken two places on
get_pairs_skip(ps) ==
    [i \in 1..Len(ps) |-> Pair(ps[i], ps[((i + 1) % Len(ps)) + 1])]

\* get_pairs after the shuffle: people[i] gives to people[(i + 1) % len]
\* (indices from 0 in the code, from 1 here)
get_pairs(ps) ==
    [i \in 1..Len(ps) |-> Pair(ps[i], ps[(i % Len(ps)) + 1])]

\* check_pairs: the ValueError raised, "" when none
RECURSIVE check_pairs_from(_, _, _, _)
check_pairs_from(ps, k, givers, receivers) ==
    IF k > Len(ps) THEN ""
    ELSE IF Identity(ps[k].giver) = Identity(ps[k].receiver)
    THEN "is giving to themselves!"
    ELSE IF Identity(ps[k].giver) \in givers THEN "is giving twice!"
    ELSE IF Identity(ps[k].receiver) \in receivers THEN "is receiving twice!"
    ELSE check_pairs_from(ps, k + 1, givers \cup {Identity(ps[k].giver)},
                          receivers \cup {Identity(ps[k].receiver)})

check_pairs(ps) == check_pairs_from(ps, 1, {}, {})

\* Scraper._cache_file
_cache_file(source, code) == <<source, code>>

\* Scraper.target_url and Scraper.redirect_url: the configured template
\* with its {code} placeholder filled in
target_url(source, code) == [template |-> "scrape_template", source |-> source, code |-> code]
redirect_url(source, code) == [template |-> "href_template", source |-> source, code |-> code]

\* the record a cache file holds: yaml.safe_dump writes the dict of
\* as_dict, yaml.safe_load reads the title back as a string and the prices
\* as floats or None
CacheRecord(d) == [t |-> "yaml", doc |-> as_dict(d)]

\* the cache file is not consulted
scrape_uncached(source, code, no_scrape, files, resp) ==
    LET cache_file == _cache_file(source, code)
        failed(msg) == [raised |-> msg, details |-> NoResult, files |-> files,
                        fetched |-> msg # "Santa, don't scrape!"]
    IN  IF no_scrape THEN failed("Santa, don't scrape!")
        ELSE IF resp.t = "error" THEN failed("ConnectionError")
        ELSE LET d == ScraperDetails(resp.title, resp.sale_price, resp.list_price)
             IN  IF d.raised # "" THEN failed(d.raised)
                 ELSE [raised |-> "", details |-> d,
                       files |-> [files EXCEPT ![cache_file] = CacheRecord(d)],
                       fetched |-> TRUE]

\* Scraper.scrape: resp is what requests.get and the selectors give if the
\* page is fetched
scrape(source, code, no_scrape, files, resp) ==
    LET cache_file == _cache_file(source, code)
        failed(msg, fetched) == [raised |-> msg, details |-> NoResult,
                                 files |-> files, fetched |-> fetched]
    IN  IF no_scrape THEN failed("Santa, don't scrape!", FALSE)
        ELSE IF files[cache_file].t = "yaml"
        THEN LET doc == files[cache_file].doc
                 d == ScraperDetails(doc.title, doc.sale_price, doc.list_price)
             IN  IF d.raised # "" THEN failed(d.raised, FALSE)
                 ELSE [raised |-> "", details |-> d, files |-> files, fetched |-> FALSE]
        ELSE IF resp.t = "error" THEN failed("ConnectionError", TRUE)
        ELSE LET d == ScraperDetails(resp.title, resp.sale_price, resp.list_price)
             IN  IF d.raised # "" THEN failed(d.raised, TRUE)
                 ELSE [raised |-> "", details |-> d,
                       files |-> [files EXCEPT ![cache_file] = CacheRecord(d)],
                       fetched |-> TRUE]

Anchor(href, text) == [t |-> "a", href |-> href, text |-> text]

\* only the kill-switch and network errors are caught
ScrapedItem_as_html_narrow(it, no_scrape, files, resp) ==
    LET r == scrape(it.source, it.code, no_scrape, files, resp)
        href == redirect_url(it.source, it.code)
    IN  IF r.raised = ""
        THEN [raised |-> "", html |-> Anchor(href, repr(r.details)), scrape |-> r]
        ELSE IF r.raised \in {"Santa, don't scrape!", "ConnectionError"}
        THEN [raised |-> "", html |-> Anchor(href, href), scrape |-> r]
        ELSE [raised |-> r.raised, html |-> NoResult, scrape |-> r]

\* the ValueError of float() is let through
ScrapedItem_as_html_price_fatal(it, no_scrape, files, resp) ==
    LET r == scrape(it.source, it.code, no_scrape, files, resp)
        href == redirect_url(it.source, it.code)
    IN  IF r.raised = ""
        THEN [raised |-> "", html |-> Anchor(href, repr(r.details)), scrape |-> r]
        ELSE IF r.raised = "could not convert string to float"
        THEN [raised |-> r.raised, html |-> NoResult, scrape |-> r]
        ELSE [raised |-> "", html |-> Anchor(href, href), scrape |-> r]

\* ScrapedItem.as_html: _try_scrape_html, and on any Exception the plain link
ScrapedItem_as_html(it, no_scrape, files, resp) ==
    LET r == scrape(it.source, it.code, no_scrape, files, resp)
        href == redirect_url(it.source, it.code)
    IN  IF r.raised = ""
        THEN [raised |-> "", html |-> Anchor(href, repr(r.details)), scrape |-> r]
        ELSE [raised |-> "", html |-> Anchor(href, href), scrape |-> r]

\* LinkedItem.as_html
LinkedItem_as_html(it) == Anchor(it.url, it.url)

\* PlainTextItem.as_html
PlainTextItem_as_html(it) == [t |-> "text", text |-> it.text]

\* EmailFactory._format_body: what template.render is given to show, the
\* giver and the receiver by name and email
_format_body(pair, wishlist) ==
    [giver |-> Identity(pair.giver), receiver |-> Identity(pair.receiver),
     wishlist |-> wishlist]

\* EmailFactory.make_email, the wishlist items being rendered already
make_email(pair, test, rendered) ==
    [to |-> IF test THEN [test_address_of |-> pair.giver.name]
            ELSE [address |-> pair.giver.email],
     subject |-> "subject",
     text_body |-> _format_body(pair, Wishlist(rendered)),
     img_body |-> _format_body(pair, None)]

----------------------------------------------------------------------------
(* Values the variables of a part take while another part is explored *)

IdleMain ==
    /\ pc = "idle"
    /\ args = [preview |-> FALSE, test |-> FALSE, no_scrape |-> FALSE]
    /\ people = << >>
    /\ scrapers = << >>
    /\ pairs = << >>
    /\ emails = << >>
    /\ items = << >>
    /\ sent = << >>
    /\ cache = << >>
    /\ fetches = << >>
    /\ last = [op |-> "none"]
    /\ error = ""

IdleItem == raw = << >> /\ item = NoResult

IdleDetails ==
    /\ title = None
    /\ sale_price = None
    /\ list_price = None
    /\ details = NoResult

----------------------------------------------------------------------------
(* parse_wishlist_item applied to one raw wishlist string *)

CODE_A == <<"A", "B", "1", "2", "C", "D", "3", "4", "E", "F">>
CODE_B == <<"1", "2", "3", "4", "5", "6", "7", "8", "9", "0">>

ItemPrefixes == {<< >>, HTTP, HTTPS, <<"x">>, <<"h", "t", "t", "p">>}
ItemNames == {AMAZON, <<"e", "b", "a", "y">>, <<"A", "m", "a", "z", "o", "n">>,
              <<"a", "m", "a", "z", "o">>}
ItemSeparators == {<<"/">>, <<"-">>}
ItemCodes == {CODE_A, CODE_B, SubSeq(CODE_A, 1, CODE_LEN - 1),
              <<"a", "b", "1", "2", "c", "d", "3", "4", "e", "f">>}
ItemPads == SeqsUpTo({"Z", " "}, MaxPad)

RawItems ==
    {Concat(<<p, n, sep, c, pad>>) :
        p \in ItemPrefixes, n \in ItemNames, sep \in ItemSeparators,
        c \in ItemCodes, pad \in ItemPads}

InitItem ==
    /\ raw \in RawItems
    /\ item = NoResult
    /\ IdleMain
    /\ IdleDetails

Classify ==
    /\ item = NoResult
    /\ item' = parse_wishlist_item(raw)
    /\ UNCHANGED <<raw, mainVars, detailVars>>

NextItem == Classify

SpecItem == InitItem /\ [][NextItem]_vars

----------------------------------------------------------------------------
(* ScraperDetails constructed from one scraped record, and its summary *)

PRODUCT == <<"P", "R", "O", "D", "U", "C", "T">>

RECURSIVE Words(_)
Words(n) == IF n = 1 THEN PRODUCT ELSE Words(n - 1) \o <<" ">> \o PRODUCT

PriceChars == {"$", "5", "2", ".", " "}

Titles ==
    {None, Str(<<" ">> \o PRODUCT \o <<" ">>)} \cup {Str(Words(n)) : n \in 1..MaxWords}

SalePrices ==
    {None, Float(5, 0), Float(25, 1), Float(12345, 1)}
        \cup {Str(s) : s \in SeqsUpTo(PriceChars, MaxLen)}

ListPrices ==
    {None, Float(5, 0), Float(1234567, 0), Str(<<"5">>), Str(<<"1", "0">>),
     Str(<<"$", "2", "$", "5">>), Str(<<"x">>)}

InitDetails ==
    /\ title \in Titles
    /\ sale_price \in SalePrices
    /\ list_price \in ListPrices
    /\ details = NoResult
    /\ IdleMain
    /\ IdleItem

Construct ==
    /\ details = NoResult
    /\ details' =
           LET d == ScraperDetails(title, sale_price, list_price)
           IN  [t |-> "ScraperDetails", raised |-> d.raised, title |-> d.title,
                sale_price |-> d.sale_price, list_price |-> d.list_price,
                repr |-> IF d.raised = "" THEN repr(d) ELSE << >>]
    /\ UNCHANGED <<title, sale_price, list_price, mainVars, itemVars>>

NextDetails == Construct

SpecDetails == InitDetails /\ [][NextDetails]_vars

----------------------------------------------------------------------------
(* The run of main(), step by step *)

ITEM_A == AMAZON \o <<"/">> \o CODE_A
ITEM_A_URL == HTTPS \o AMAZON \o <<"/">> \o CODE_A
ITEM_LINK == HTTPS \o <<"e", ".", "c", "o", "m">>
ITEM_TEXT == <<"s", "o", "c", "k", "s">>

Participant(name, email, wishlist) == [name |-> name, email |-> email, wishlist |-> wishlist]

Participants ==
    {Participant("ann", "ann@x", None),
     Participant("ann", "ann@x", Wishlist(<<ITEM_TEXT>>)),
     Participant("ann", "dee@x", Wishlist(<<ITEM_A_URL>>)),
     Participant("bob", "bob@x", Wishlist(<<ITEM_A, ITEM_TEXT>>)),
     Participant("cy", "cy@x", Wishlist(<<ITEM_LINK>>))}

CacheFiles == {_cache_file(AMAZON, CODE_A)}

MUG == <<"M", "u", "g">>

Page(ti, sp, lp) == [t |-> "page", title |-> ti, sale_price |-> sp, list_price |-> lp]

\* what a fetch can give: a network error, or the text each selector finds
Responses ==
    {[t |-> "error"],
     Page(None, Str(<<"5">>), None),
     Page(Str(<<" ">> \o MUG), Str(<<"$", "x">>), Str(<<"$", "9">>)),
     Page(Str(<<" ">> \o MUG), Str(<<"5">>), Str(<<"$", "9">>))}

\* cache directories a run can start with: empty, or holding a record an
\* earlier run wrote
StoredMug == ScraperDetails(Str(MUG), Str(<<"5">>), None)

InitialCaches ==
    {[f \in CacheFiles |-> None], [f \in CacheFiles |-> CacheRecord(StoredMug)]}

\* the command lines explored: --test only changes the address make_email
\* writes, so it is explored on a sending run with scraping disabled
ArgSets ==
    [preview : BOOLEAN, test : {FALSE}, no_scrape : BOOLEAN]
        \cup {[preview |-> FALSE, test |-> TRUE, no_scrape |-> TRUE]}

Init ==
    /\ pc = "start"
    /\ args \in ArgSets
    /\ people \in SeqsUpTo(Participants, MaxPeople)
    /\ scrapers \in {<< >>, <<AMAZON>>}
    /\ pairs = << >>
    /\ emails = << >>
    /\ items = << >>
    /\ sent = << >>
    /\ cache \in InitialCaches
    /\ fetches = [f \in CacheFiles |-> 0]
    /\ last = [op |-> "none"]
    /\ error = ""
    /\ IdleItem
    /\ IdleDetails

Abort(msg) ==
    /\ pc' = "aborted"
    /\ error' = msg

\* main, lines 457-461: the participants are read and checked for duplicates
CheckDuplicates ==
    /\ pc = "start"
    /\ last' = [op |-> "check_duplicates"]
    /\ IF HasDuplicates(people)
       THEN Abort("Duplicate names or emails found!")
       ELSE pc' = "pairs" /\ error' = error
    /\ UNCHANGED <<args, people, scrapers, pairs, emails, items, sent, cache, fetches>>

\* main, line 463: pairs = list(get_pairs(people))
GetPairs ==
    /\ pc = "pairs"
    /\ \E shuffled \in Shuffles(people) : pairs' = get_pairs(shuffled)
    /\ pc' = "check"
    /\ last' = [op |-> "get_pairs"]
    /\ UNCHANGED <<args, people, scrapers, emails, items, sent, cache, fetches, error>>

\* main, line 464: check_pairs(pairs)
CheckPairs ==
    /\ pc = "check"
    /\ last' = [op |-> "check_pairs"]
    /\ IF check_pairs(pairs) # ""
       THEN Abort(check_pairs(pairs))
       ELSE pc' = "build" /\ error' = error
    /\ UNCHANGED <<args, people, scrapers, pairs, emails, items, sent, cache, fetches>>

\* the pair whose email is being built, and the wishlist it renders
Building == pc = "build" /\ Len(emails) < Len(pairs)
CurrentPair == pairs[Len(emails) + 1]
CurrentWishlist == get_wishlist(CurrentPair.receiver)

\* one round of the loop of _get_wishlist_items, inside make_email
RenderItem ==
    /\ Building
    /\ Len(items) < Len(CurrentWishlist)
    /\ LET it == parse_wishlist_item(CurrentWishlist[Len(items) + 1])
       IN  IF it.t = "ScrapedItem"
           THEN IF \A i \in 1..Len(scrapers) : scrapers[i] # it.source
                THEN /\ Abort("generator raised StopIteration")
                     /\ last' = [op |-> "render", item |-> it, scraped |-> FALSE]
                     /\ UNCHANGED <<items, cache, fetches>>
                ELSE \E resp \in Responses :
                        LET r == ScrapedItem_as_html(it, args.no_scrape, cache, resp)
                            f == _cache_file(it.source, it.code)
                        IN  /\ last' = [op |-> "render", item |-> it, scraped |-> TRUE,
                                        raised |-> r.raised, scrape |-> r.scrape,
                                        html |-> r.html, cached_before |-> cache[f]]
                            /\ cache' = r.scrape.files
                            /\ fetches' = [fetches EXCEPT
                                              ![f] = IF r.scrape.fetched THEN @ + 1 ELSE @]
                            /\ IF r.raised # ""
                               THEN Abort(r.raised) /\ items' = items
                               ELSE /\ items' = Append(items, r.html)
                                    /\ UNCHANGED <<pc, error>>
           ELSE /\ items' = Append(items, IF it.t = "LinkedItem"
                                          THEN LinkedItem_as_html(it)
                                          ELSE PlainTextItem_as_html(it))
                /\ last' = [op |-> "render", item |-> it, scraped |-> FALSE]
                /\ UNCHANGED <<pc, error, cache, fetches>>
    /\ UNCHANGED <<args, people, scrapers, pairs, emails, sent>>

\* make_email returns: the email joins the list of main, line 471
MakeEmail ==
    /\ Building
    /\ Len(items) = Len(CurrentWishlist)
    /\ emails' = Append(emails, make_email(CurrentPair, args.test, items))
    /\ items' = << >>
    /\ last' = [op |-> "make_email"]
    /\ UNCHANGED <<pc, args, people, scrapers, pairs, sent, cache, fetches, error>>

AllBuilt == pc = "build" /\ Len(emails) = Len(pairs)

\* main, lines 473-488: the preview is written and printed, nothing is sent
Preview ==
    /\ AllBuilt
    /\ args.preview
    /\ pc' = "done"
    /\ last' = [op |-> "preview"]
    /\ UNCHANGED <<args, people, scrapers, pairs, emails, items, sent, cache, fetches, error>>

\* main, line 490: EmailAgent(...) connects and logs in, or raises
CreateAgent ==
    /\ AllBuilt
    /\ ~args.preview
    /\ last' = [op |-> "agent"]
    /\ \/ pc' = "send" /\ error' = error
       \/ Abort("EmailAgent failed")
    /\ UNCHANGED <<args, people, scrapers, pairs, emails, items, sent, cache, fetches>>

\* the send loop starts while emails are still being built
SendEmail_while_building ==
    /\ pc \in {"build", "send"}
    /\ Len(sent) < Len(emails)
    /\ sent' = Append(sent, emails[Len(sent) + 1])
    /\ last' = [op |-> "send"]
    /\ UNCHANGED <<pc, args, people, scrapers, pairs, emails, items, cache, fetches, error>>

\* main, lines 493-494: agent.send(email, style) hands one email to sendmail
SendEmail ==
    /\ pc = "send"
    /\ Len(sent) < Len(emails)
    /\ sent' = Append(sent, emails[Len(sent) + 1])
    /\ last' = [op |-> "send"]
    /\ UNCHANGED <<pc, args, people, scrapers, pairs, emails, items, cache, fetches, error>>

\* agent.send raises before the email is handed over
SendFails ==
    /\ pc = "send"
    /\ Len(sent) < Len(emails)
    /\ Abort("send failed")
    /\ last' = [op |-> "send"]
    /\ UNCHANGED <<args, people, scrapers, pairs, emails, items, sent, cache, fetches>>

\* main, line 496: return 0
Return ==
    /\ pc = "send"
    /\ Len(sent) = Len(emails)
    /\ pc' = "done"
    /\ last' = [op |-> "return"]
    /\ UNCHANGED <<args, people, scrapers, pairs, emails, items, sent, cache, fetches, error>>

Next ==
    \/ (CheckDuplicates /\ UNCHANGED <<itemVars, detailVars>>)
    \/ (GetPairs /\ UNCHANGED <<itemVars, detailVars>>)
    \/ (CheckPairs /\ UNCHANGED <<itemVars, detailVars>>)
    \/ (RenderItem /\ UNCHANGED <<itemVars, detailVars>>)
    \/ (MakeEmail /\ UNCHANGED <<itemVars, detailVars>>)
    \/ (Preview /\ UNCHANGED <<itemVars, detailVars>>)
    \/ (CreateAgent /\ UNCHANGED <<itemVars, detailVars>>)
    \/ (SendEmail /\ UNCHANGED <<itemVars, detailVars>>)
    \/ (SendFails /\ UNCHANGED <<itemVars, detailVars>>)
    \/ (Return /\ UNCHANGED <<itemVars, detailVars>>)

Spec == Init /\ [][Next]_vars

----------------------------------------------------------------------------
(* Properties of a run of main(), checked under Spec *)

SameParticipant(p, q) == p.name = q.name /\ p.email = q.email

PairwiseDistinct(ps) ==
    \A i, j \in 1..Len(ps) : SameParticipant(ps[i], ps[j]) => i = j

PairsGenerated == pc \in {"check", "build", "send", "done"} \/ (pc = "aborted" /\ pairs # << >>)

TimesGiver(p) == Cardinality({k \in 1..Len(pairs) : SameParticipant(pairs[k].giver, p)})
TimesReceiver(p) == Cardinality({k \in 1..Len(pairs) : SameParticipant(pairs[k].receiver, p)})

\* C1: from n >= 2 pairwise-distinct participants, whatever the shuffle,
\* get_pairs gives n pairs, every participant is giver of exactly one and
\* receiver of exactly one, and no pair has its giver as receiver.
C1_SingleCycle ==
    (PairsGenerated /\ Len(people) >= 2 /\ PairwiseDistinct(people)) =>
        /\ Len(pairs) = Len(people)
        /\ \A i \in 1..Len(people) :
               TimesGiver(people[i]) = 1 /\ TimesReceiver(people[i]) = 1
        /\ \A k \in 1..Len(pairs) : ~SameParticipant(pairs[k].giver, pairs[k].receiver)

\* three distinct participants have been paired
C1_Witness ==
    /\ pc = "check"
    /\ Len(people) = 3
    /\ PairwiseDistinct(people)
    /\ Len(pairs) = 3

EarlyErrors ==
    {"Duplicate names or emails found!", "is giving to themselves!", "is giving twice!",
     "is receiving twice!", "generator raised StopIteration",
     "could not convert string to float", "Title is None", "ConnectionError",
     "Santa, don't scrape!"}

\* C2: a message is sent only after the duplicate check, the pairing, its
\* validation and the building of the emails of all pairs; a run aborted by
\* one of these has sent nothing.
C2_NothingSentBeforeAllBuilt ==
    /\ sent # << >> =>
           /\ PairwiseDistinct(people)
           /\ Len(pairs) = Len(people)
           /\ check_pairs(pairs) = ""
           /\ Len(emails) = Len(pairs)
           /\ items = << >>
           /\ \A k \in 1..Len(pairs) : emails[k].text_body.giver = Identity(pairs[k].giver)
    /\ (pc = "aborted" /\ error \in EarlyErrors) => sent = << >>

\* a first message has been sent while others are still to be sent
C2_Witness ==
    /\ pc = "send"
    /\ Len(sent) = 1
    /\ Len(emails) = 3

RenderedScraped == last.op = "render" /\ last.scraped

FallbackLink(it) ==
    [t |-> "a", href |-> redirect_url(it.source, it.code),
     text |-> redirect_url(it.source, it.code)]

\* C3: when Scraper.scrape fails, for whatever reason, as_html raises
\* nothing and returns the plain link to the redirect URL of the code; the
\* run goes on with the wishlist.
C3_ScrapeFailureFallsBack ==
    (RenderedScraped /\ last.scrape.raised # "") =>
        /\ last.raised = ""
        /\ last.html = FallbackLink(last.item)
        /\ pc = "build"
        /\ error = ""
        /\ items # << >>
        /\ items[Len(items)] = FallbackLink(last.item)

\* the kill-switch made a scrape fail
C3_Witness ==
    /\ RenderedScraped
    /\ last.scrape.raised = "Santa, don't scrape!"
    /\ args.no_scrape

PriceErrorSeen ==
    RenderedScraped /\ last.scrape.raised = "could not convert string to float"

C5_CacheIdempotent ==
    [][\A f \in CacheFiles :
          (pc # "idle" /\ cache[f] # None) =>
              /\ cache'[f] = cache[f]
              /\ fetches'[f] = fetches[f]
              /\ (/\ last'.op = "render"
                  /\ last'.scraped
                  /\ _cache_file(last'.item.source, last'.item.code) = f
                  /\ ~args.no_scrape) =>
                     /\ last'.scrape.raised = ""
                     /\ ~last'.scrape.fetched
                     /\ as_dict(last'.scrape.details) = cache[f].doc]_vars

\* a scrape was served from the record that a fetch of this run wrote
C5_Witness ==
    /\ RenderedScraped
    /\ last.scrape.raised = ""
    /\ ~last.scrape.fetched
    /\ fetches[_cache_file(AMAZON, CODE_A)] = 1

\* C6: with two participants of the same name and email in the list the run
\* fails before any pair is generated: no pair, no email, nothing sent.
C6_DuplicatesRejected ==
    ~PairwiseDistinct(people) =>
        /\ pc \in {"start", "aborted"}
        /\ pc = "aborted" => error = "Duplicate names or emails found!"
        /\ pairs = << >>
        /\ emails = << >>
        /\ items = << >>
        /\ sent = << >>

\* a run with a duplicate participant has aborted
C6_Witness ==
    /\ pc = "aborted"
    /\ Len(people) = 2
    /\ SameParticipant(people[1], people[2])
    /\ people[1] # people[2]

\* C7: a run with fewer than 2 participants fails and never completes.
C7_FewerThanTwoFails == Len(people) < 2 => pc # "done"

----------------------------------------------------------------------------
(* Properties of parse_wishlist_item, checked under SpecItem *)

\* a match of <lowercase name>/<CODE_LEN upper-case alphanumerics> whose
\* name starts at i and whose "/" is at j
GenericMatchAt(s, i, j) ==
    /\ i < j
    /\ j + CODE_LEN <= Len(s)
    /\ \A k \in i..(j - 1) : s[k] \in LOWER
    /\ s[j] = "/"
    /\ \A k \in 1..CODE_LEN : s[j + k] \in UPPER \cup Digit

HasGenericMatch(s) == \E i, j \in 1..Len(s) : GenericMatchAt(s, i, j)

\* an occurrence of amazon/<CODE_LEN upper-case alphanumerics> after the
\* first n characters of s
AmazonAfter(s, n) ==
    /\ n + Len(AMAZON) + 1 + CODE_LEN <= Len(s)
    /\ StartsWith(SubSeq(s, n + 1, Len(s)), AMAZON \o <<"/">>)
    /\ \A k \in (n + Len(AMAZON) + 2)..(n + Len(AMAZON) + 1 + CODE_LEN) :
           s[k] \in UPPER \cup Digit

HasAmazon(s) == \E n \in 0..Len(s) : AmazonAfter(s, n)

BeginsWithUrlScheme(s) == StartsWith(s, HTTP) \/ StartsWith(s, HTTPS)

\* C8 as stated: any string holding <lowercase source name>/<10 upper-case
\* alphanumerics> is classified ScrapedItem with that source and code, else a
\* string beginning with http:// or https:// is a LinkedItem, else it is a
\* PlainTextItem holding the raw string.
C8_AnySourceName ==
    item # NoResult =>
        IF HasGenericMatch(raw)
        THEN /\ item.t = "ScrapedItem"
             /\ \E i, j \in 1..Len(raw) :
                    /\ GenericMatchAt(raw, i, j)
                    /\ item.source = SubSeq(raw, i, j - 1)
                    /\ item.code = SubSeq(raw, j + 1, j + CODE_LEN)
        ELSE IF BeginsWithUrlScheme(raw)
        THEN item.t = "LinkedItem" /\ item.url = raw
        ELSE item.t = "PlainTextItem" /\ item.text = raw

\* C8 amended: the classification is total, with exactly one variant; a
\* string holding amazon/<10 upper-case alphanumerics> anywhere is a
\* ScrapedItem with source amazon and the code of the leftmost occurrence,
\* also when it begins with http:// or https://; else a string beginning with
\* http:// or https:// is a LinkedItem of the raw string; every other string
\* is a PlainTextItem of the raw string.
C8_Classification ==
    item # NoResult =>
        /\ item.t \in {"ScrapedItem", "LinkedItem", "PlainTextItem"}
        /\ HasAmazon(raw) =>
               /\ item.t = "ScrapedItem"
               /\ item.source = AMAZON
               /\ \E n \in 0..Len(raw) :
                      /\ AmazonAfter(raw, n)
                      /\ \A m \in 0..(n - 1) : ~AmazonAfter(raw, m)
                      /\ StartsWith(SubSeq(raw, n + 1, Len(raw)),
                                    AMAZON \o <<"/">> \o item.code)
                      /\ Len(item.code) = CODE_LEN
        /\ (~HasAmazon(raw) /\ BeginsWithUrlScheme(raw)) =>
               item.t = "LinkedItem" /\ item.url = raw
        /\ (~HasAmazon(raw) /\ ~BeginsWithUrlScheme(raw)) =>
               item.t = "PlainTextItem" /\ item.text = raw

\* a scraper reference inside a URL has been classified
C8_Witness ==
    /\ item # NoResult
    /\ item.t = "ScrapedItem"
    /\ StartsWith(raw, HTTPS)

----------------------------------------------------------------------------
(* Properties of ScraperDetails, checked under SpecDetails *)

Constructed == details # NoResult /\ details.raised = ""

\* C9: a price text with more than one "$" is parsed from the text after the
\* last "$" only ("$2$5" gives 5), and is absent when that text is empty.
C9_AfterLastSymbol ==
    (/\ details # NoResult
     /\ title # None
     /\ ~_clean_price(list_price).raised
     /\ sale_price.t = "str"
     /\ Count(sale_price.s, "$") > 1) =>
        LET after == RPartitionTail(sale_price.s, "$")
        IN  IF after = << >>
            THEN details.raised = "" /\ details.sale_price = None
            ELSE IF float(after).raised
            THEN details.raised # ""
            ELSE details.raised = "" /\ details.sale_price = float(after).v

WithPrice(t, price_str) == t \o <<" ", "(">> \o price_str \o <<")">>

ON_SALE_EXAMPLE == <<"P", "R", "O", "D", "U", "C", "T", " ", "(", "O", "n", " ", "s", "a", "l", "e", " ", "f", "o", "r", " ", "$", "5", ".", "0", "0", ",", " ", "u", "s", "u", "a", "l", "l", "y", " ", "$", "1", "0", ".", "0", "0", "!", ")">>

\* C10: for a title of at most 8 words the summary is the title alone when
\* both prices are absent, "TITLE ($P)" when they are equal or only one is
\* present, the "On sale for" text when sale < list, the "Be aware" text when
\* sale > list, and "???" never appears in it.
C10_Summary ==
    (Constructed /\ Count(details.title, " ") + 1 <= 8) =>
        LET S == details.sale_price
            L == details.list_price
            T == details.title
        IN  /\ (S = None /\ L = None) => details.repr = T
            /\ (S # None /\ L # None /\ S = L) => details.repr = WithPrice(T, dolla(S))
            /\ (S # None /\ L # None /\ FloatLess(S, L)) =>
                   details.repr = WithPrice(T, ON_SALE_FOR \o dolla(S) \o USUALLY
                                                \o dolla(L) \o <<"!">>)
            /\ (S # None /\ L # None /\ FloatLess(L, S)) =>
                   details.repr = WithPrice(T, BE_AWARE \o dolla(S) \o USUALLY
                                                \o dolla(L) \o <<".">>)
            /\ (S # None /\ L = None) => details.repr = WithPrice(T, dolla(S))
            /\ (S = None /\ L # None) => details.repr = WithPrice(T, dolla(L))
            /\ ~Contains(details.repr, UNKNOWN)
            /\ (T = PRODUCT /\ S = Float(5, 0) /\ L = Float(10, 0)) =>
                   details.repr = ON_SALE_EXAMPLE

\* a summary with only the list price present has been produced
C10_Witness ==
    /\ Constructed
    /\ details.title = PRODUCT
    /\ details.sale_price = None
    /\ details.list_price = Float(1234567, 0)
    /\ Contains(details.repr, <<"1", ",", "2", "3", "4", ",", "5", "6", "7", ".", "0", "0">>)

====
